---- MODULE Spec2Model ----
(***************************************************************************)
(* A model of the SMS handler (package smshandler): the AT command         *)
(* transaction (sendATCommand), the outbound submission (SendSMS), the     *)
(* session initialisation (NewSMSHandler / initModem), the listener        *)
(* goroutine (ListenForIncomingSMS) and the pause/resume handshake over    *)
(* the two unbuffered channels pauseChan and resumeChan.                   *)
(*                                                                         *)
(* Text is a sequence of one-character strings.  The serial stream is a    *)
(* sequence of bytes: `wire' holds what the modem has sent and the port    *)
(* has not yet handed out, `buffered' what the bufio.Reader holds.         *)
(***************************************************************************)
EXTENDS Integers, Sequences, FiniteSets, TLC

(* ------------------------------ bounds -------------------------------- *)

\* caller threads that may invoke the public operations concurrently
NumCallers == 2
\* listener goroutines, i.e. calls of ListenForIncomingSMS that are modelled
MaxListeners == 2
\* callbacks that panic in one behaviour
MaxPanics == 1

Callers == 1..NumCallers
ListenerIds == (NumCallers + 1)..(NumCallers + MaxListeners)
Threads == 1..(NumCallers + MaxListeners)

(* ------------------------------- text --------------------------------- *)

CRLF == <<"\r", "\n">>
tAT == <<"A","T">>
tCMGF == <<"A","T","+","C","M","G","F","=","1">>
tCSCS == <<"A","T","+","C","S","C","S","=","\"","G","S","M","\"">>
tCPMS == <<"A","T","+","C","P","M","S","=","\"","S","M","\"",",","\"","S","M","\"",",","\"","S","M","\"">>
tCNMI1 == <<"A","T","+","C","N","M","I","=","1",",","2",",","0",",","1",",","0">>
tCNMI2 == <<"A","T","+","C","N","M","I","=","2",",","1",",","0",",","2",",","0">>
tCNMI3 == <<"A","T","+","C","N","M","I","=","1",",","1",",","0",",","1",",","0">>
tATI == <<"A","T","I">>
tCSQ == <<"A","T","+","C","S","Q">>
tCMGLAll == <<"A","T","+","C","M","G","L","=","\"","A","L","L","\"">>
tCMGLUnread == <<"A","T","+","C","M","G","L","=","\"","R","E","C"," ","U","N","R","E","A","D","\"">>
tCMGD == <<"A","T","+","C","M","G","D","=">>
tCMGR == <<"A","T","+","C","M","G","R","=">>
tCMGS == <<"A","T","+","C","M","G","S","=","\"">>
tCMGSq == <<"+","C","M","G","S",":">>
tCMSERROR == <<"+","C","M","S"," ","E","R","R","O","R">>
\* the byte 0x1A (Ctrl-Z)
CtrlZ == "^Z"
tOK == <<"O","K">>
tERROR == <<"E","R","R","O","R">>
tCMEERROR == <<"+","C","M","E"," ","E","R","R","O","R">>
tCMT == <<"+","C","M","T",":">>
tCMTI == <<"+","C","M","T","I",":">>
tATPlus == <<"A","T","+">>
tCMGFq == <<"+","C","M","G","F",":">>
tCSCSq == <<"+","C","S","C","S",":">>
tCPMSq == <<"+","C","P","M","S",":">>
tCNMIq == <<"+","C","N","M","I",":">>
tCSQq == <<"+","C","S","Q",":">>
tCMGLq == <<"+","C","M","G","L",":">>
tCMGRq == <<"+","C","M","G","R",":">>

\* unicode.IsSpace on the bytes that occur on the stream
IsSpace(c) == c \in {" ", "\t", "\n", "\r"}

RECURSIVE TrimLeft(_)
TrimLeft(s) == IF s # <<>> /\ IsSpace(Head(s)) THEN TrimLeft(Tail(s)) ELSE s

RECURSIVE TrimRight(_)
TrimRight(s) ==
    IF s # <<>> /\ IsSpace(s[Len(s)]) THEN TrimRight(SubSeq(s, 1, Len(s) - 1)) ELSE s

\* strings.TrimSpace
TrimSpace(s) == TrimRight(TrimLeft(s))

\* strings.HasPrefix
HasPrefix(s, p) == Len(s) >= Len(p) /\ SubSeq(s, 1, Len(p)) = p

\* strings.Contains
Contains(s, sub) == \E i \in 0..(Len(s) - Len(sub)) : SubSeq(s, i + 1, i + Len(sub)) = sub

RECURSIVE Split(_, _)
\* strings.Split on a one-byte separator
Split(s, c) ==
    IF \E i \in 1..Len(s) : s[i] = c
    THEN LET k == CHOOSE i \in 1..Len(s) : s[i] = c /\ \A j \in 1..(i - 1) : s[j] # c
         IN <<SubSeq(s, 1, k - 1)>> \o Split(SubSeq(s, k + 1, Len(s)), c)
    ELSE <<s>>

RECURSIVE Join(_, _)
\* strings.Join
Join(ls, sep) ==
    IF ls = <<>> THEN <<>>
    ELSE IF Len(ls) = 1 THEN ls[1]
    ELSE ls[1] \o sep \o Join(Tail(ls), sep)

RECURSIVE TrimCutLeft(_, _)
TrimCutLeft(s, c) == IF s # <<>> /\ Head(s) = c THEN TrimCutLeft(Tail(s), c) ELSE s

RECURSIVE TrimCutRight(_, _)
TrimCutRight(s, c) ==
    IF s # <<>> /\ s[Len(s)] = c THEN TrimCutRight(SubSeq(s, 1, Len(s) - 1), c) ELSE s

\* strings.Trim(s, "\"")
TrimQuotes(s) == TrimCutRight(TrimCutLeft(s, "\""), "\"")

Digits == <<"0", "1", "2", "3", "4", "5", "6", "7", "8", "9">>
IsDigit(c) == \E d \in 1..10 : Digits[d] = c
DigitVal(c) == (CHOOSE d \in 1..10 : Digits[d] = c) - 1

RECURSIVE ScanDigits(_, _)
ScanDigits(s, acc) ==
    IF s # <<>> /\ IsDigit(Head(s)) THEN ScanDigits(Tail(s), acc * 10 + DigitVal(Head(s)))
    ELSE acc

\* fmt.Sscanf(s, "%d", &n): leading space skipped, then the decimal digits;
\* n stays 0 when none follows
ScanInt(s) ==
    LET t == TrimLeft(s) IN
    IF t # <<>> /\ Head(t) = "-" THEN 0 - ScanDigits(Tail(t), 0)
    ELSE IF t # <<>> /\ Head(t) = "+" THEN ScanDigits(Tail(t), 0)
    ELSE ScanDigits(t, 0)

RECURSIVE NatToText(_)
NatToText(n) == IF n < 10 THEN <<Digits[n + 1]>> ELSE NatToText(n \div 10) \o <<Digits[(n % 10) + 1]>>

\* fmt.Sprintf("%d", n)
Itoa(n) == IF n < 0 THEN <<"-">> \o NatToText(0 - n) ELSE NatToText(n)

(* ------------------------------ state --------------------------------- *)

VARIABLES
    listening,   \* SMSHandler.listening
    closed,      \* the port has been closed (or the transport has failed)
    wire,        \* bytes the modem has sent, not yet read from the port
    buffered,    \* bytes held by SMSHandler.reader (bufio.Reader)
    script,      \* the chunks the modem is still going to send
    written,     \* every buffer handed to port.Write, in order
    pc,          \* where each thread (caller or listener goroutine) stands
    op,          \* the operation each thread is executing
    cmd,         \* the command of the thread's running sendATCommand
    rd,          \* the response reader goroutine of the running sendATCommand
    orphans,     \* reader goroutines still reading after their sendATCommand returned
    leaked,      \* reader goroutines blocked for ever on `done <- true'
    ret,         \* what the thread's sendATCommand returned
    result,      \* what the thread's public operation returned
    handshook,   \* the running transaction completed the pause handshake
    resumes,     \* resume signals sent by the running transaction
    pausedBy,    \* per listener: the thread whose pause request it received
    todo,        \* the public operations the callers are still going to invoke
    sms,         \* per listener: the SMS record being assembled
    messageLines,\* per listener: the body lines collected by handleCMTMessage
    readerMu,    \* SMSHandler.readerMu: the listener holding it, or 0
    delivered,   \* the records handed to the callback, in order
    panics,      \* callbacks that have panicked so far
    responseBuffer, \* per thread: SendSMS's responseBuffer
    initStep,    \* per thread: the command initModem is at (0: not in initModem)
    messages,    \* per thread: the records its ReadSMS or ReadNewSMS returned
    sawClosed,   \* per listener: one of its reads failed on the closed port
    initLog,     \* the errors initModem's sendATCommand calls returned, in order
    stream,      \* every byte the modem has sent so far
    timedOut,    \* per listener: a handleCMTMessage of it took its timeout branch
    pendingReads \* per listener: the reads it has made with a pause request
                 \* waiting since its select last found none (2: two or more)

vars == <<listening, closed, wire, buffered, script, written, pc, op, cmd, rd,
          orphans, leaked, ret, result, handshook, resumes, pausedBy, todo,
          sms, messageLines, readerMu, delivered, panics, responseBuffer, initStep,
          messages,
          sawClosed, initLog, stream, timedOut, pendingReads>>

\* the listener's own variables
lvars == <<sms, messageLines, readerMu, delivered, panics>>

\* the variables of SendSMS and initModem
svars == <<responseBuffer, initStep, messages>>

\* the history variables
hvars == <<sawClosed, initLog, stream, timedOut, pendingReads>>

\* a reader goroutine: `seen' is the history of the lines it has read, trimmed
NoReader == [pc |-> "none", empty |-> 0, resp |-> <<>>, why |-> "", seen |-> <<>>]
NoRet == [err |-> "none", text |-> <<>>, why |-> ""]
NoResult == [op |-> "none", err |-> "none", text |-> <<>>]
NoSMS == [Index |-> 0, Status |-> <<>>, Sender |-> <<>>, Date |-> <<>>, Message |-> <<>>]

(* --------------------------- bufio.Reader ------------------------------ *)

HasNL(s) == \E i \in 1..Len(s) : s[i] = "\n"
FirstNL(s) == CHOOSE i \in 1..Len(s) : s[i] = "\n" /\ \A j \in 1..(i - 1) : s[j] # "\n"

\* what a port.Read can still deliver
Readable == IF closed THEN <<>> ELSE wire

\* reader.ReadString('\n'): the line up to and including the newline when the
\* buffer, refilled from the port, holds one; otherwise the read ends with an
\* error (time-out without progress, end of stream, closed port) and what had
\* been read is gone with it.
ReadString ==
    LET avail == IF HasNL(buffered) THEN buffered ELSE buffered \o Readable IN
    IF HasNL(avail)
    THEN LET k == FirstNL(avail) IN
         [ok |-> TRUE, err |-> "none", line |-> SubSeq(avail, 1, k),
          buffered |-> SubSeq(avail, k + 1, Len(avail)),
          wire |-> IF HasNL(buffered) THEN wire ELSE <<>>]
    ELSE [ok |-> FALSE, err |-> IF closed THEN "closed" ELSE "nodata",
          line |-> avail, buffered |-> <<>>,
          wire |-> IF closed THEN wire ELSE <<>>]

(* --------------------------- sendATCommand ----------------------------- *)

\* the terminal test of the response reader
IsTerminal(line) ==
    Contains(line, tOK) \/ Contains(line, tERROR) \/ Contains(line, tCMEERROR)

\* the reader's loop as it would be if it did not discard the command echo
ReaderStepKeepingEcho(c, s, r) ==
    IF ~r.ok THEN [s EXCEPT !.pc = "r_done", !.why = r.err]
    ELSE LET line == TrimSpace(r.line) IN
         IF line = <<>>
         THEN IF s.empty + 1 > 3
              THEN [s EXCEPT !.pc = "r_done", !.empty = s.empty + 1, !.why = "blank",
                             !.seen = Append(@, line)]
              ELSE [s EXCEPT !.empty = s.empty + 1, !.seen = Append(@, line)]
         ELSE [pc |-> IF IsTerminal(line) THEN "r_done" ELSE "r_read",
               empty |-> 0,
               resp |-> s.resp \o line \o <<"\n">>,
               why |-> IF IsTerminal(line) THEN "terminal" ELSE "",
               seen |-> Append(s.seen, line)]

\* one turn of the reader goroutine's loop on the outcome r of ReadString,
\* for the command c: the reader afterwards (`why' records what ended the loop)
ReaderStep(c, s, r) ==
    IF ~r.ok THEN [s EXCEPT !.pc = "r_done", !.why = r.err]
    ELSE LET line == TrimSpace(r.line) IN
         IF line = c THEN [s EXCEPT !.seen = Append(@, line)]
         ELSE IF line = <<>>
         THEN IF s.empty + 1 > 3
              THEN [s EXCEPT !.pc = "r_done", !.empty = s.empty + 1, !.why = "blank",
                             !.seen = Append(@, line)]
              ELSE [s EXCEPT !.empty = s.empty + 1, !.seen = Append(@, line)]
         ELSE [pc |-> IF IsTerminal(line) THEN "r_done" ELSE "r_read",
               empty |-> 0,
               resp |-> s.resp \o line \o <<"\n">>,
               why |-> IF IsTerminal(line) THEN "terminal" ELSE "",
               seen |-> Append(s.seen, line)]

\* where a thread goes once pauseListener has returned
AfterPause(t) == IF op[t] = "SendSMS" THEN "sms_write" ELSE "at_write"

\* pauseListener, its test of s.listening
PauseListener(t) ==
    /\ pc[t] = "pause"
    /\ pc' = [pc EXCEPT ![t] = IF listening THEN "pause_send" ELSE AfterPause(t)]
    /\ UNCHANGED <<listening, closed, wire, buffered, script, written, op, cmd, rd,
                   orphans, leaked, ret, result, handshook, resumes, pausedBy, todo, lvars, svars, hvars>>

\* `s.pauseChan <- true' of pauseListener meets `case <-s.pauseChan' of a listener
PauseHandshake(t, l) ==
    /\ pc[t] = "pause_send"
    /\ pc[l] = "l_select"
    /\ pc' = [pc EXCEPT ![t] = "pause_wait", ![l] = "l_ack"]
    /\ pausedBy' = [pausedBy EXCEPT ![l] = t]
    /\ UNCHANGED <<listening, closed, wire, buffered, script, written, op, cmd, rd,
                   orphans, leaked, ret, result, handshook, resumes, todo, lvars, svars, hvars>>

\* a send on resumeChan (the listener's acknowledgement, or resumeListener)
\* meets a receive from it (pauseListener's wait, or the listener's wait)
ResumeTransfer(s, r) ==
    /\ pc[s] \in {"l_ack", "resume_send"}
    /\ pc[r] \in {"pause_wait", "l_wait"}
    /\ pc' = [pc EXCEPT ![s] = IF pc[s] = "l_ack" THEN "l_wait" ELSE "ret",
                        ![r] = IF pc[r] = "l_wait" THEN "l_select" ELSE AfterPause(r)]
    /\ resumes' = IF pc[s] = "resume_send" THEN [resumes EXCEPT ![s] = @ + 1] ELSE resumes
    /\ handshook' = IF pc[r] = "pause_wait" THEN [handshook EXCEPT ![r] = TRUE] ELSE handshook
    /\ pausedBy' = IF pc[r] = "l_wait" THEN [pausedBy EXCEPT ![r] = 0] ELSE pausedBy
    /\ UNCHANGED <<listening, closed, wire, buffered, script, written, op, cmd, rd,
                   orphans, leaked, ret, result, todo, lvars, svars, hvars>>

\* resumeListener (deferred), its test of s.listening
ResumeListener(t) ==
    /\ pc[t] = "resume"
    /\ pc' = [pc EXCEPT ![t] = IF listening THEN "resume_send" ELSE "ret"]
    /\ UNCHANGED <<listening, closed, wire, buffered, script, written, op, cmd, rd,
                   orphans, leaked, ret, result, handshook, resumes, pausedBy, todo, lvars, svars, hvars>>

\* sendATCommand after the pause: drain the buffer, write the command and
\* start the reader goroutine; a failed write returns at once
ATWrite(t) ==
    /\ pc[t] = "at_write"
    /\ buffered' = <<>>
    /\ IF closed
       THEN /\ ret' = [ret EXCEPT ![t] = [err |-> "write", text |-> <<>>, why |-> "write"]]
            /\ pc' = [pc EXCEPT ![t] = "resume"]
            /\ UNCHANGED <<written, rd>>
       ELSE /\ written' = Append(written, cmd[t] \o CRLF)
            /\ rd' = [rd EXCEPT ![t] = [NoReader EXCEPT !.pc = "r_read"]]
            /\ pc' = [pc EXCEPT ![t] = "at_select"]
            /\ UNCHANGED ret
    /\ UNCHANGED <<listening, closed, wire, script, op, cmd, orphans, leaked, result,
                   handshook, resumes, pausedBy, todo, lvars, svars, hvars>>

\* the reader goroutine of a running sendATCommand reads one line
ReaderRead(t) ==
    /\ rd[t].pc = "r_read"
    /\ LET r == ReadString IN
       /\ rd' = [rd EXCEPT ![t] = ReaderStep(cmd[t], rd[t], r)]
       /\ buffered' = r.buffered
       /\ wire' = r.wire
    /\ UNCHANGED <<listening, closed, script, written, pc, op, cmd, orphans, leaked,
                   ret, result, handshook, resumes, pausedBy, todo, lvars, svars, hvars>>

\* a reader goroutine whose sendATCommand has already returned reads one line;
\* when its loop ends it blocks on `done <- true' for ever
OrphanRead(k) ==
    /\ k \in 1..Len(orphans)
    /\ LET r == ReadString
           s == ReaderStep(orphans[k].cmd, [NoReader EXCEPT !.pc = "r_read",
                                                             !.empty = orphans[k].empty], r)
           rest == SubSeq(orphans, 1, k - 1) \o SubSeq(orphans, k + 1, Len(orphans))
       IN /\ IF s.pc = "r_done"
             THEN orphans' = rest /\ leaked' = leaked + 1
             ELSE /\ orphans' = [orphans EXCEPT ![k] = [cmd |-> orphans[k].cmd,
                                                         empty |-> s.empty]]
                  /\ UNCHANGED leaked
          /\ buffered' = r.buffered
          /\ wire' = r.wire
    /\ UNCHANGED <<listening, closed, script, written, pc, op, cmd, rd, ret, result,
                   handshook, resumes, pausedBy, todo, lvars, svars, hvars>>

\* select: `case <-done'
ATSelectDone(t) ==
    /\ pc[t] = "at_select"
    /\ rd[t].pc = "r_done"
    /\ ret' = [ret EXCEPT ![t] = [err |-> "none", text |-> TrimSpace(rd[t].resp),
                                  why |-> rd[t].why]]
    /\ rd' = [rd EXCEPT ![t] = NoReader]
    /\ pc' = [pc EXCEPT ![t] = "resume"]
    /\ UNCHANGED <<listening, closed, wire, buffered, script, written, op, cmd,
                   orphans, leaked, result, handshook, resumes, pausedBy, todo, lvars, svars, hvars>>

\* select: `case <-timeout'; the reader goroutine is left behind
ATSelectTimeout(t) ==
    /\ pc[t] = "at_select"
    /\ ret' = [ret EXCEPT ![t] = [err |-> "timeout", text |-> TrimSpace(rd[t].resp),
                                  why |-> "timeout"]]
    /\ rd' = [rd EXCEPT ![t] = NoReader]
    /\ IF rd[t].pc = "r_read"
       THEN /\ orphans' = Append(orphans, [cmd |-> cmd[t], empty |-> rd[t].empty])
            /\ UNCHANGED leaked
       ELSE /\ leaked' = leaked + 1
            /\ UNCHANGED orphans
    /\ pc' = [pc EXCEPT ![t] = "resume"]
    /\ UNCHANGED <<listening, closed, wire, buffered, script, written, op, cmd,
                   result, handshook, resumes, pausedBy, todo, lvars, svars, hvars>>

(* -------------------------- public operations -------------------------- *)

\* the command each sendATCommand wrapper sends (DeleteSMS for index 1)
CommandOf(o) ==
    CASE o = "GetModemInfo" -> tATI
      [] o = "GetSignalStrength" -> tCSQ
      [] o = "ReadSMS" -> tCMGLAll
      [] o = "ReadNewSMS" -> tCMGLUnread
      [] o = "DeleteSMS" -> tCMGD \o Itoa(1)

ATOps == {"GetModemInfo", "GetSignalStrength", "DeleteSMS"}

\* the wrappers that parse the response as a list of messages
ListOps == {"ReadSMS", "ReadNewSMS"}

\* a caller invokes one of the sendATCommand wrappers
Invoke(t, o) ==
    /\ t \in Callers
    /\ pc[t] = "idle"
    /\ todo # <<>>
    /\ o = Head(todo)
    /\ o \in ATOps \cup ListOps
    /\ todo' = Tail(todo)
    /\ op' = [op EXCEPT ![t] = o]
    /\ cmd' = [cmd EXCEPT ![t] = CommandOf(o)]
    /\ pc' = [pc EXCEPT ![t] = "pause"]
    /\ result' = [result EXCEPT ![t] = NoResult]
    /\ handshook' = [handshook EXCEPT ![t] = FALSE]
    /\ resumes' = [resumes EXCEPT ![t] = 0]
    /\ UNCHANGED <<listening, closed, wire, buffered, script, written, rd, orphans,
                   leaked, ret, pausedBy, lvars, svars, hvars>>

\* GetModemInfo, GetSignalStrength and DeleteSMS return what sendATCommand returned
WrapperReturn(t) ==
    /\ pc[t] = "ret"
    /\ op[t] \in ATOps
    /\ result' = [result EXCEPT ![t] =
                    [op |-> op[t], err |-> ret[t].err,
                     text |-> IF op[t] = "DeleteSMS" THEN <<>> ELSE ret[t].text]]
    /\ pc' = [pc EXCEPT ![t] = "idle"]
    /\ op' = [op EXCEPT ![t] = "none"]
    /\ cmd' = [cmd EXCEPT ![t] = <<>>]
    /\ ret' = [ret EXCEPT ![t] = NoRet]
    /\ UNCHANGED <<listening, closed, wire, buffered, script, written, rd, orphans,
                   leaked, handshook, resumes, pausedBy, todo, lvars, svars, hvars>>

\* parseSMSList as it would be if a header with too few parts ended the loop
RECURSIVE ParseListAborting(_, _)
ParseListAborting(lines, i) ==
    IF i > Len(lines) THEN <<>>
    ELSE LET line == TrimSpace(lines[i])
             parts == Split(line, ",")
         IN IF HasPrefix(line, tCMGLq) /\ Len(parts) >= 4
            THEN <<[Index |-> ScanInt(SubSeq(parts[1], Len(tCMGLq) + 1, Len(parts[1]))),
                    Status |-> TrimQuotes(parts[2]),
                    Sender |-> TrimQuotes(parts[3]),
                    Date |-> TrimQuotes(parts[4]),
                    Message |-> IF i + 1 <= Len(lines) THEN TrimSpace(lines[i + 1]) ELSE <<>>]>>
                 \o ParseListAborting(lines, i + 2)
            ELSE IF HasPrefix(line, tCMGLq) THEN <<>>
            ELSE ParseListAborting(lines, i + 1)

RECURSIVE ParseListFrom(_, _)
\* parseSMSList, its loop from line i on: a +CMGL: header with at least four
\* comma-separated parts gives a record whose message is the line after it,
\* which is then skipped
ParseListFrom(lines, i) ==
    IF i > Len(lines) THEN <<>>
    ELSE LET line == TrimSpace(lines[i])
             parts == Split(line, ",")
         IN IF HasPrefix(line, tCMGLq) /\ Len(parts) >= 4
            THEN <<[Index |-> ScanInt(SubSeq(parts[1], Len(tCMGLq) + 1, Len(parts[1]))),
                    Status |-> TrimQuotes(parts[2]),
                    Sender |-> TrimQuotes(parts[3]),
                    Date |-> TrimQuotes(parts[4]),
                    Message |-> IF i + 1 <= Len(lines) THEN TrimSpace(lines[i + 1]) ELSE <<>>]>>
                 \o ParseListFrom(lines, i + 2)
            ELSE ParseListFrom(lines, i + 1)

\* parseSMSList
parseSMSList(response) == ParseListFrom(Split(response, "\n"), 1)

\* ReadSMS and ReadNewSMS return the parsed list, or the error of sendATCommand
ListReturn(t) ==
    /\ pc[t] = "ret"
    /\ op[t] \in ListOps
    /\ result' = [result EXCEPT ![t] = [op |-> op[t], err |-> ret[t].err, text |-> <<>>]]
    /\ messages' = [messages EXCEPT ![t] =
                      IF ret[t].err = "none" THEN parseSMSList(ret[t].text) ELSE <<>>]
    /\ pc' = [pc EXCEPT ![t] = "idle"]
    /\ op' = [op EXCEPT ![t] = "none"]
    /\ cmd' = [cmd EXCEPT ![t] = <<>>]
    /\ ret' = [ret EXCEPT ![t] = NoRet]
    /\ UNCHANGED <<listening, closed, wire, buffered, script, written, rd, orphans,
                   leaked, handshook, resumes, pausedBy, todo, lvars, responseBuffer,
                   initStep, hvars>>

\* Close as it would be if it stopped the listener by clearing the flag
CloseClearingListening(t) ==
    /\ t \in Callers
    /\ pc[t] = "idle"
    /\ todo # <<>>
    /\ Head(todo) = "Close"
    /\ todo' = Tail(todo)
    /\ closed' = TRUE
    /\ listening' = FALSE
    /\ UNCHANGED <<wire, buffered, script, written, pc, op, cmd, rd,
                   orphans, leaked, ret, result, handshook, resumes, pausedBy, lvars, svars, hvars>>

\* Close
Close(t) ==
    /\ t \in Callers
    /\ pc[t] = "idle"
    /\ todo # <<>>
    /\ Head(todo) = "Close"
    /\ todo' = Tail(todo)
    /\ closed' = TRUE
    /\ UNCHANGED <<listening, wire, buffered, script, written, pc, op, cmd, rd,
                   orphans, leaked, ret, result, handshook, resumes, pausedBy, lvars, svars, hvars>>

(* ----------------------------- the listener ---------------------------- *)

\* ListenForIncomingSMS: set the flag and start one more listener goroutine
ListenForIncomingSMS(t) ==
    /\ t \in Callers
    /\ pc[t] = "idle"
    /\ todo # <<>>
    /\ Head(todo) = "Listen"
    /\ todo' = Tail(todo)
    /\ \E l \in ListenerIds :
        /\ pc[l] = "l_none"
        /\ \A k \in ListenerIds : k < l => pc[k] # "l_none"
        /\ pc' = [pc EXCEPT ![l] = "l_select"]
    /\ listening' = TRUE
    /\ UNCHANGED <<closed, wire, buffered, script, written, op, cmd, rd, orphans,
                   leaked, ret, result, handshook, resumes, pausedBy, lvars, svars, hvars>>

\* the count of a listener's reads made while a pauseListener is blocked on
\* its send on pauseChan, after one more read
ReadWhilePending(n) ==
    IF ~\E t \in Threads : pc[t] = "pause_send" THEN n
    ELSE IF n < 2 THEN n + 1 ELSE 2

\* the listener's select takes `default' when no pause request is waiting
ListenerPoll(l) ==
    /\ pc[l] = "l_select"
    /\ listening
    /\ ~\E t \in Threads : pc[t] = "pause_send"
    /\ pc' = [pc EXCEPT ![l] = "l_read"]
    /\ pendingReads' = [pendingReads EXCEPT ![l] = 0]
    /\ UNCHANGED <<listening, closed, wire, buffered, script, written, op, cmd, rd,
                   orphans, leaked, ret, result, handshook, resumes, pausedBy, todo, lvars, svars,
                   sawClosed, initLog, stream, timedOut>>

\* isATResponse
isATResponse(line) ==
    \/ HasPrefix(line, tATPlus) \/ line = tAT
    \/ line = tOK \/ line = tERROR
    \/ HasPrefix(line, tCMGFq) \/ HasPrefix(line, tCSCSq) \/ HasPrefix(line, tCPMSq)
    \/ HasPrefix(line, tCNMIq) \/ HasPrefix(line, tCSQq)

\* handleCMTMessage, the header: the record, or no record for a header that
\* is dropped
ParseCMTHeader(line) ==
    LET parts == Split(line, ",") IN
    IF Len(parts) < 3 THEN [ok |-> FALSE, sms |-> NoSMS]
    ELSE IF Len(parts[1]) > 6
    THEN [ok |-> TRUE,
          sms |-> [NoSMS EXCEPT !.Sender = TrimQuotes(SubSeq(parts[1], 7, Len(parts[1]))),
                                !.Date = TrimQuotes(parts[3])]]
    ELSE [ok |-> FALSE, sms |-> NoSMS]

\* handleCMTIMessage, the index of the stored message; -1 stands for a line
\* with fewer than two fields, for which nothing is fetched
ParseCMTIIndex(line) ==
    LET parts == Split(line, ",") IN
    IF Len(parts) >= 2 THEN ScanInt(parts[2]) ELSE -1

\* the listener's read of one line and its classification
ListenerRead(l) ==
    /\ pc[l] = "l_read"
    /\ LET r == ReadString
           line == TrimSpace(r.line)
           hdr == ParseCMTHeader(line)
           idx == ParseCMTIIndex(line)
       IN /\ buffered' = r.buffered
          /\ wire' = r.wire
          /\ sawClosed' = [sawClosed EXCEPT ![l] = @ \/ r.err = "closed"]
          /\ pendingReads' = [pendingReads EXCEPT ![l] = ReadWhilePending(@)]
          /\ IF ~r.ok \/ line = <<>> \/ isATResponse(line)
             THEN /\ pc' = [pc EXCEPT ![l] = "l_select"]
                  /\ UNCHANGED <<op, cmd, sms, handshook, resumes>>
             ELSE IF HasPrefix(line, tCMT)
             THEN /\ pc' = [pc EXCEPT ![l] = IF hdr.ok THEN "cmt_lock" ELSE "l_select"]
                  /\ sms' = [sms EXCEPT ![l] = hdr.sms]
                  /\ UNCHANGED <<op, cmd, handshook, resumes>>
             ELSE IF HasPrefix(line, tCMTI) /\ Len(Split(line, ",")) >= 2
             THEN /\ pc' = [pc EXCEPT ![l] = "pause"]
                  /\ op' = [op EXCEPT ![l] = "readSMSByIndex"]
                  /\ cmd' = [cmd EXCEPT ![l] = tCMGR \o Itoa(idx)]
                  /\ sms' = [sms EXCEPT ![l] = [NoSMS EXCEPT !.Index = idx]]
                  /\ handshook' = [handshook EXCEPT ![l] = FALSE]
                  /\ resumes' = [resumes EXCEPT ![l] = 0]
             ELSE /\ pc' = [pc EXCEPT ![l] = "l_select"]
                  /\ UNCHANGED <<op, cmd, sms, handshook, resumes>>
    /\ UNCHANGED <<listening, closed, script, written, rd, orphans, leaked, ret, result,
                   pausedBy, todo, messageLines, readerMu, delivered, panics, svars,
                   initLog, stream, timedOut>>

\* handleCMTMessage: s.readerMu.Lock()
CMTLock(l) ==
    /\ pc[l] = "cmt_lock"
    /\ readerMu = 0
    /\ readerMu' = l
    /\ messageLines' = [messageLines EXCEPT ![l] = <<>>]
    /\ pc' = [pc EXCEPT ![l] = "cmt_read"]
    /\ UNCHANGED <<listening, closed, wire, buffered, script, written, op, cmd, rd,
                   orphans, leaked, ret, result, handshook, resumes, pausedBy, todo,
                   sms, delivered, panics, svars, hvars>>

\* handleCMTMessage as it would leave its loop if it called the callback
\* whether or not a body line had been collected
CMTFinishAlwaysCalling(l) ==
    /\ sms' = [sms EXCEPT ![l].Message = Join(messageLines[l], <<"\n">>)]
    /\ pc' = [pc EXCEPT ![l] = "callback"]
    /\ UNCHANGED <<messageLines, readerMu>>

\* handleCMTMessage leaves its loop: with a body the callback is called, without
\* one the function returns (and the deferred Unlock runs)
CMTFinish(l) ==
    IF messageLines[l] # <<>>
    THEN /\ sms' = [sms EXCEPT ![l].Message = Join(messageLines[l], <<"\n">>)]
         /\ pc' = [pc EXCEPT ![l] = "callback"]
         /\ UNCHANGED <<messageLines, readerMu>>
    ELSE /\ sms' = [sms EXCEPT ![l] = NoSMS]
         /\ messageLines' = [messageLines EXCEPT ![l] = <<>>]
         /\ readerMu' = 0
         /\ pc' = [pc EXCEPT ![l] = "l_select"]

\* handleCMTMessage: `case <-timeout' (2 seconds)
CMTTimeout(l) ==
    /\ pc[l] = "cmt_read"
    /\ CMTFinish(l)
    /\ timedOut' = [timedOut EXCEPT ![l] = TRUE]
    /\ UNCHANGED <<listening, closed, wire, buffered, script, written, op, cmd, rd,
                   orphans, leaked, ret, result, handshook, resumes, pausedBy, todo,
                   delivered, panics, svars, sawClosed, initLog, stream, pendingReads>>

\* a line that ends the body of the notification being assembled
EndsBody(line) ==
    \/ HasPrefix(line, tCMT) \/ HasPrefix(line, tCMTI)
    \/ HasPrefix(line, tOK) \/ HasPrefix(line, tERROR)
    \/ HasPrefix(line, tATPlus)

\* handleCMTMessage: `default', the read of one body line
CMTRead(l) ==
    /\ pc[l] = "cmt_read"
    /\ LET r == ReadString
           line == TrimSpace(r.line)
       IN /\ buffered' = r.buffered
          /\ wire' = r.wire
          /\ sawClosed' = [sawClosed EXCEPT ![l] = @ \/ r.err = "closed"]
          /\ pendingReads' = [pendingReads EXCEPT ![l] = ReadWhilePending(@)]
          /\ IF ~r.ok \/ (line = <<>> /\ messageLines[l] = <<>>)
             THEN UNCHANGED <<pc, sms, messageLines, readerMu>>
             ELSE IF EndsBody(line) THEN CMTFinish(l)
             ELSE IF line # <<>>
             THEN /\ messageLines' = [messageLines EXCEPT ![l] = Append(@, line)]
                  /\ UNCHANGED <<pc, sms, readerMu>>
             ELSE CMTFinish(l)
    /\ UNCHANGED <<listening, closed, script, written, op, cmd, rd, orphans, leaked,
                   ret, result, handshook, resumes, pausedBy, todo, delivered, panics,
                   svars, initLog, stream, timedOut>>

\* the caller's callback runs on the listener goroutine; when it panics the
\* deferred Unlock runs, the deferred recover of the goroutine prints and the
\* goroutine ends
Callback(l, panic) ==
    /\ pc[l] = "callback"
    /\ panic => panics < MaxPanics
    /\ delivered' = Append(delivered, sms[l])
    /\ panics' = IF panic THEN panics + 1 ELSE panics
    /\ readerMu' = IF readerMu = l THEN 0 ELSE readerMu
    /\ sms' = [sms EXCEPT ![l] = NoSMS]
    /\ messageLines' = [messageLines EXCEPT ![l] = <<>>]
    /\ pc' = [pc EXCEPT ![l] = IF panic THEN "l_dead" ELSE "l_select"]
    /\ UNCHANGED <<listening, closed, wire, buffered, script, written, op, cmd, rd,
                   orphans, leaked, ret, result, handshook, resumes, pausedBy, todo, svars, hvars>>

\* readSMSByIndex, the parse of the response: the first +CMGR: line with at
\* least three fields gives the record; slicing a first field shorter than 7
\* bytes panics
ParseCMGR(index, response) ==
    LET lines == Split(response, "\n")
        hit(i) == /\ HasPrefix(TrimSpace(lines[i]), tCMGRq)
                  /\ Len(Split(TrimSpace(lines[i]), ",")) >= 3
    IN IF ~\E i \in 1..Len(lines) : hit(i) THEN [kind |-> "fail", sms |-> NoSMS]
       ELSE LET i == CHOOSE i \in 1..Len(lines) : hit(i) /\ \A j \in 1..(i - 1) : ~hit(j)
                parts == Split(TrimSpace(lines[i]), ",")
            IN IF Len(parts[1]) < 7 THEN [kind |-> "panic", sms |-> NoSMS]
               ELSE [kind |-> "ok",
                     sms |-> [Index |-> index,
                              Status |-> TrimQuotes(SubSeq(parts[1], 8, Len(parts[1]))),
                              Sender |-> TrimQuotes(parts[2]),
                              Date |-> TrimQuotes(parts[3]),
                              Message |-> IF i + 1 <= Len(lines)
                                          THEN TrimSpace(lines[i + 1]) ELSE <<>>]]

\* handleCMTIMessage after readSMSByIndex's sendATCommand has returned
ReadSMSByIndexReturn(l) ==
    /\ pc[l] = "ret"
    /\ op[l] = "readSMSByIndex"
    /\ LET p == IF ret[l].err # "none" THEN [kind |-> "fail", sms |-> NoSMS]
                ELSE ParseCMGR(sms[l].Index, ret[l].text)
       IN /\ sms' = [sms EXCEPT ![l] = p.sms]
          /\ pc' = [pc EXCEPT ![l] = CASE p.kind = "ok" -> "callback"
                                       [] p.kind = "panic" -> "l_dead"
                                       [] OTHER -> "l_select"]
    /\ op' = [op EXCEPT ![l] = "listen"]
    /\ cmd' = [cmd EXCEPT ![l] = <<>>]
    /\ ret' = [ret EXCEPT ![l] = NoRet]
    /\ UNCHANGED <<listening, closed, wire, buffered, script, written, rd, orphans,
                   leaked, result, handshook, resumes, pausedBy, todo, messageLines,
                   readerMu, delivered, panics, svars, hvars>>

(* ------------------------------- SendSMS ------------------------------- *)

\* the number and the text the callers send
PhoneNumber == <<"+", "1">>
MessageText == <<"h", "i">>

\* a caller invokes SendSMS
InvokeSendSMS(t) ==
    /\ t \in Callers
    /\ pc[t] = "idle"
    /\ todo # <<>>
    /\ Head(todo) = "SendSMS"
    /\ todo' = Tail(todo)
    /\ op' = [op EXCEPT ![t] = "SendSMS"]
    /\ cmd' = [cmd EXCEPT ![t] = tCMGS \o PhoneNumber \o <<"\"">>]
    /\ pc' = [pc EXCEPT ![t] = "pause"]
    /\ result' = [result EXCEPT ![t] = NoResult]
    /\ handshook' = [handshook EXCEPT ![t] = FALSE]
    /\ resumes' = [resumes EXCEPT ![t] = 0]
    /\ UNCHANGED <<listening, closed, wire, buffered, script, written, rd, orphans,
                   leaked, ret, pausedBy, lvars, svars, hvars>>

\* SendSMS after the pause: drain the buffer, write AT+CMGS="<number>" and CR
SMSWrite(t) ==
    /\ pc[t] = "sms_write"
    /\ buffered' = <<>>
    /\ IF closed
       THEN /\ ret' = [ret EXCEPT ![t] = [err |-> "write", text |-> <<>>, why |-> "write"]]
            /\ pc' = [pc EXCEPT ![t] = "resume"]
            /\ UNCHANGED written
       ELSE /\ written' = Append(written, cmd[t] \o <<"\r">>)
            /\ pc' = [pc EXCEPT ![t] = "sms_prompt"]
            /\ UNCHANGED ret
    /\ UNCHANGED <<listening, closed, wire, script, op, cmd, rd, orphans, leaked, result,
                   handshook, resumes, pausedBy, todo, lvars, svars, hvars>>

\* a prompt loop that takes any byte for the prompt
SMSPromptReadAnyByte(t) ==
    /\ pc[t] = "sms_prompt"
    /\ Readable # <<>>
    /\ wire' = Tail(wire)
    /\ pc' = [pc EXCEPT ![t] = "sms_body"]
    /\ UNCHANGED <<listening, closed, buffered, script, written, op, cmd, rd, orphans,
                   leaked, ret, result, handshook, resumes, pausedBy, todo, lvars, svars, hvars>>

\* the prompt loop: port.Read of one byte that delivers a byte
SMSPromptRead(t) ==
    /\ pc[t] = "sms_prompt"
    /\ Readable # <<>>
    /\ wire' = Tail(wire)
    /\ pc' = [pc EXCEPT ![t] = IF Head(wire) = ">" THEN "sms_body" ELSE "sms_prompt"]
    /\ UNCHANGED <<listening, closed, buffered, script, written, op, cmd, rd, orphans,
                   leaked, ret, result, handshook, resumes, pausedBy, todo, lvars, svars, hvars>>

\* the prompt loop ends after 10 seconds without a prompt
SMSPromptTimeout(t) ==
    /\ pc[t] = "sms_prompt"
    /\ ret' = [ret EXCEPT ![t] = [err |-> "prompt", text |-> <<>>, why |-> "timeout"]]
    /\ pc' = [pc EXCEPT ![t] = "resume"]
    /\ UNCHANGED <<listening, closed, wire, buffered, script, written, op, cmd, rd,
                   orphans, leaked, result, handshook, resumes, pausedBy, todo, lvars,
                   svars, hvars>>

\* after the prompt: write the message and Ctrl-Z
SMSBody(t) ==
    /\ pc[t] = "sms_body"
    /\ IF closed
       THEN /\ ret' = [ret EXCEPT ![t] = [err |-> "write", text |-> <<>>, why |-> "write"]]
            /\ pc' = [pc EXCEPT ![t] = "resume"]
            /\ UNCHANGED written
       ELSE /\ written' = Append(written, MessageText \o <<CtrlZ>>)
            /\ pc' = [pc EXCEPT ![t] = "sms_resp"]
            /\ UNCHANGED ret
    /\ responseBuffer' = [responseBuffer EXCEPT ![t] = <<>>]
    /\ UNCHANGED <<listening, closed, wire, buffered, script, op, cmd, rd, orphans,
                   leaked, result, handshook, resumes, pausedBy, todo, lvars, initStep, messages, hvars>>

\* a response loop that takes OK for the end of a successful submission
SMSRespReadAcceptingOK(t) ==
    /\ pc[t] = "sms_resp"
    /\ Readable # <<>>
    /\ LET n == IF Len(wire) < 128 THEN Len(wire) ELSE 128
           response == responseBuffer[t] \o SubSeq(wire, 1, n)
       IN /\ wire' = SubSeq(wire, n + 1, Len(wire))
          /\ IF Contains(response, tCMGSq) \/ Contains(response, tOK)
             THEN /\ ret' = [ret EXCEPT ![t] = [err |-> "none", text |-> <<>>, why |-> "terminal"]]
                  /\ pc' = [pc EXCEPT ![t] = "resume"]
                  /\ responseBuffer' = [responseBuffer EXCEPT ![t] = <<>>]
             ELSE IF Contains(response, tERROR) \/ Contains(response, tCMSERROR)
             THEN /\ ret' = [ret EXCEPT ![t] = [err |-> "failed", text |-> response, why |-> "terminal"]]
                  /\ pc' = [pc EXCEPT ![t] = "resume"]
                  /\ responseBuffer' = [responseBuffer EXCEPT ![t] = <<>>]
             ELSE /\ responseBuffer' = [responseBuffer EXCEPT ![t] = response]
                  /\ UNCHANGED <<ret, pc>>
    /\ UNCHANGED <<listening, closed, buffered, script, written, op, cmd, rd, orphans,
                   leaked, result, handshook, resumes, pausedBy, todo, lvars, initStep, messages, hvars>>

\* the response loop: port.Read of up to 128 bytes that delivers bytes
SMSRespRead(t) ==
    /\ pc[t] = "sms_resp"
    /\ Readable # <<>>
    /\ LET n == IF Len(wire) < 128 THEN Len(wire) ELSE 128
           response == responseBuffer[t] \o SubSeq(wire, 1, n)
       IN /\ wire' = SubSeq(wire, n + 1, Len(wire))
          /\ IF Contains(response, tCMGSq)
             THEN /\ ret' = [ret EXCEPT ![t] = [err |-> "none", text |-> <<>>, why |-> "terminal"]]
                  /\ pc' = [pc EXCEPT ![t] = "resume"]
                  /\ responseBuffer' = [responseBuffer EXCEPT ![t] = <<>>]
             ELSE IF Contains(response, tERROR) \/ Contains(response, tCMSERROR)
             THEN /\ ret' = [ret EXCEPT ![t] = [err |-> "failed", text |-> response, why |-> "terminal"]]
                  /\ pc' = [pc EXCEPT ![t] = "resume"]
                  /\ responseBuffer' = [responseBuffer EXCEPT ![t] = <<>>]
             ELSE /\ responseBuffer' = [responseBuffer EXCEPT ![t] = response]
                  /\ UNCHANGED <<ret, pc>>
    /\ UNCHANGED <<listening, closed, buffered, script, written, op, cmd, rd, orphans,
                   leaked, result, handshook, resumes, pausedBy, todo, lvars, initStep, messages, hvars>>

\* the response loop ends after 30 seconds
SMSRespTimeout(t) ==
    /\ pc[t] = "sms_resp"
    /\ ret' = [ret EXCEPT ![t] = [err |-> "timeout", text |-> <<>>, why |-> "timeout"]]
    /\ pc' = [pc EXCEPT ![t] = "resume"]
    /\ responseBuffer' = [responseBuffer EXCEPT ![t] = <<>>]
    /\ UNCHANGED <<listening, closed, wire, buffered, script, written, op, cmd, rd,
                   orphans, leaked, result, handshook, resumes, pausedBy, todo, lvars,
                   initStep, messages, hvars>>

\* SendSMS returns (after the deferred resumeListener)
SMSReturn(t) ==
    /\ pc[t] = "ret"
    /\ op[t] = "SendSMS"
    /\ result' = [result EXCEPT ![t] = [op |-> "SendSMS", err |-> ret[t].err,
                                        text |-> ret[t].text]]
    /\ pc' = [pc EXCEPT ![t] = "idle"]
    /\ op' = [op EXCEPT ![t] = "none"]
    /\ cmd' = [cmd EXCEPT ![t] = <<>>]
    /\ ret' = [ret EXCEPT ![t] = NoRet]
    /\ UNCHANGED <<listening, closed, wire, buffered, script, written, rd, orphans,
                   leaked, handshook, resumes, pausedBy, todo, lvars, svars, hvars>>

(* ----------------------- NewSMSHandler / initModem --------------------- *)

\* the commands of initModem, in the order of its statements
InitCommands == <<tAT, tCMGF, tCSCS, tCPMS, tCNMI1, tCNMI2, tCNMI3>>

\* the thread that constructs the handler
Ctor == 1

\* NewSMSHandler: serial.Open, the handler value, then initModem's first command
NewSMSHandler(opened) ==
    /\ pc[Ctor] = "new"
    /\ IF opened
       THEN /\ pc' = [pc EXCEPT ![Ctor] = "pause"]
            /\ op' = [op EXCEPT ![Ctor] = "initModem"]
            /\ cmd' = [cmd EXCEPT ![Ctor] = InitCommands[1]]
            /\ initStep' = [initStep EXCEPT ![Ctor] = 1]
            /\ UNCHANGED <<result, closed>>
       ELSE /\ pc' = [pc EXCEPT ![Ctor] = "idle"]
            /\ result' = [result EXCEPT ![Ctor] =
                            [op |-> "NewSMSHandler", err |-> "open", text |-> <<>>]]
            /\ closed' = TRUE
            /\ UNCHANGED <<op, cmd, initStep>>
    /\ UNCHANGED <<listening, wire, buffered, script, written, rd, orphans, leaked, ret,
                   handshook, resumes, pausedBy, todo, lvars, responseBuffer, messages, hvars>>

\* an initModem that ignores the error of its first four commands and goes on
\* to the next one
InitNextIgnoringErrors(k, failed) ==
    IF k <= 4 THEN k + 1
    ELSE IF ~failed THEN 0
    ELSE IF k < 7 THEN k + 1 ELSE -1

\* an initModem that gives up after the first notification variant failed
InitNextWithoutFallback(k, failed) ==
    IF failed THEN -1
    ELSE IF k <= 4 THEN k + 1 ELSE 0

\* what initModem does once its k-th command has returned with or without an
\* error: the next command to send, 0 to return nil, or -1 to return an error
InitNext(k, failed) ==
    IF k <= 4 THEN (IF failed THEN -1 ELSE k + 1)
    ELSE IF ~failed THEN 0
    ELSE IF k < 7 THEN k + 1 ELSE -1

\* initModem after one of its sendATCommand calls has returned; when initModem
\* returns an error NewSMSHandler closes the port and returns no handler
InitModemStep(t) ==
    /\ pc[t] = "ret"
    /\ op[t] = "initModem"
    /\ LET n == InitNext(initStep[t], ret[t].err # "none") IN
       IF n > 0
       THEN /\ pc' = [pc EXCEPT ![t] = "pause"]
            /\ cmd' = [cmd EXCEPT ![t] = InitCommands[n]]
            /\ initStep' = [initStep EXCEPT ![t] = n]
            /\ UNCHANGED <<op, result, closed>>
       ELSE /\ pc' = [pc EXCEPT ![t] = "idle"]
            /\ op' = [op EXCEPT ![t] = "none"]
            /\ cmd' = [cmd EXCEPT ![t] = <<>>]
            /\ initStep' = [initStep EXCEPT ![t] = 0]
            /\ result' = [result EXCEPT ![t] =
                            [op |-> "NewSMSHandler",
                             err |-> IF n = 0 THEN "none" ELSE "init", text |-> <<>>]]
            /\ closed' = IF n = 0 THEN closed ELSE TRUE
    /\ ret' = [ret EXCEPT ![t] = NoRet]
    /\ initLog' = Append(initLog, ret[t].err)
    /\ UNCHANGED <<listening, wire, buffered, script, written, rd, orphans, leaked,
                   handshook, resumes, pausedBy, todo, lvars, responseBuffer, messages, sawClosed,
                   stream, timedOut, pendingReads>>

\* the transport fails (the device is unplugged): reads and writes fail from now on
TransportFails ==
    /\ ~closed
    /\ closed' = TRUE
    /\ UNCHANGED <<listening, wire, buffered, script, written, pc, op, cmd, rd,
                   orphans, leaked, ret, result, handshook, resumes, pausedBy, todo,
                   lvars, svars, hvars>>

(* ------------------------------ the modem ------------------------------ *)

\* the modem sends its next chunk
ModemSend ==
    /\ script # <<>>
    /\ ~closed
    /\ wire' = wire \o Head(script)
    /\ script' = Tail(script)
    /\ stream' = stream \o Head(script)
    /\ UNCHANGED <<listening, closed, buffered, written, pc, op, cmd, rd, orphans,
                   leaked, ret, result, handshook, resumes, pausedBy, todo, lvars, svars,
                   sawClosed, initLog, timedOut, pendingReads>>

(* --------------------------- what the modem sends ---------------------- *)

Line(x) == x \o CRLF
cOK == Line(tOK)
cERROR == Line(tERROR)
cCMEERROR == Line(<<"+","C","M","E"," ","E","R","R","O","R",":"," ","1","0">>)
cCMSERROR == Line(tCMSERROR \o <<":", " ", "5">>)
cBlank == CRLF
cEcho == Line(tCSQ)
cData == Line(<<"a","b","c">>)
cCMTI == Line(<<"+","C","M","T","I",":"," ","\"","S","M","\"",",","1">>)
cCMT == Line(<<"+","C","M","T",":"," ","\"","+","1","\"",",","\"","\"",",","\"","d","\"">>)
cCMTDated == Line(<<"+","C","M","T",":"," ","\"","+","1","\"",",","\"","\"",",","\"","d",",","t","\"">>)
cCMGL == Line(<<"+","C","M","G","L",":"," ","1",",","\"","R","E","C"," ","R","E","A","D","\"",",","\"","+","1","\"",",","\"","\"",",","\"","d","\"">>)
cCMGLNoSender == Line(<<"+","C","M","G","L",":"," ","2",",","\"","R","E","C"," ","R","E","A","D","\"",",","\"","\"",",","\"","\"",",","\"","d","\"">>)
cCMGR == Line(<<"+","C","M","G","R",":"," ","\"","R","E","C"," ","U","N","R","E","A","D","\"",",","\"","+","1","\"",",","\"","d","\"">>)
cPrompt == <<"\r", "\n", ">", " ">>
cCMGS == Line(<<"+","C","M","G","S",":"," ","1">>)

\* one run: what the modem sends, and the public operations the callers
\* invoke, in the order of their invocation (any idle caller takes the next
\* one, so they overlap freely)
Run(s, w) == [script |-> s, todo |-> w]

\* the runs the handler is put through
Scenarios ==
    { Run(<<>>, <<"Listen", "GetSignalStrength", "DeleteSMS">>),
      Run(<<cOK>>, <<"GetSignalStrength", "Listen", "DeleteSMS">>),
      Run(<<cOK>>, <<"GetModemInfo", "DeleteSMS">>),
      Run(<<>>, <<"Listen", "Listen", "GetSignalStrength", "DeleteSMS">>),
      Run(<<cData, cERROR>>, <<"Listen", "DeleteSMS">>),
      Run(<<cCMEERROR>>, <<"DeleteSMS">>),
      Run(<<cBlank, cBlank, cBlank, cBlank>>, <<"Listen", "GetSignalStrength">>),
      Run(<<cCMT, cData, cBlank>>, <<"Listen", "GetModemInfo">>),
      Run(<<cCMTI, cCMGR, cData, cOK>>, <<"Listen", "Listen">>),
      Run(<<cCMTI>>, <<"Listen", "GetSignalStrength">>),
      Run(<<cPrompt, cCMGS>>, <<"Listen", "SendSMS", "GetModemInfo">>),
      Run(<<cPrompt, cERROR>>, <<"SendSMS", "Listen">>),
      Run(<<cOK>>, <<"Listen", "GetModemInfo", "Close">>),
      Run(<<cCMT, cData, cBlank>>, <<"Listen", "Close">>),
      Run(<<cCMTDated, cData, cData, cBlank>>, <<"Listen">>),
      Run(<<cCMGL, cData, cCMGLNoSender, cData, cOK>>, <<"ReadSMS">>),
      Run(<<cCMGL, cBlank, cOK>>, <<"Listen", "ReadNewSMS">>),
      Run(<<cPrompt, cOK, cCMSERROR>>, <<"SendSMS">>),
      Run(<<cEcho, cBlank, cData, cOK, cData>>, <<"GetSignalStrength">>),
      Run(<<cBlank, cBlank, cEcho, cBlank, cBlank, cOK>>, <<"GetSignalStrength">>),
      Run(<<cCMT, cData, cCMTDated, cData, cBlank>>, <<"Listen">>),
      Run(<<Line(tCMT \o <<" ", "\"", "+", "1", "\"">>), cData, cBlank>>, <<"Listen">>),
      Run(<<cCMGL, cBlank, cCMGLNoSender, cData, cOK>>, <<"ReadSMS">>) }

(* ------------------------------ the handler ---------------------------- *)

\* the handler as NewSMSHandler returns it, before any call
Init ==
    /\ listening = FALSE
    /\ closed = FALSE
    /\ wire = <<>>
    /\ buffered = <<>>
    /\ \E sc \in Scenarios : script = sc.script /\ todo = sc.todo
    /\ written = <<>>
    /\ pc = [t \in Threads |-> IF t \in Callers THEN "idle" ELSE "l_none"]
    /\ op = [t \in Threads |-> IF t \in Callers THEN "none" ELSE "listen"]
    /\ cmd = [t \in Threads |-> <<>>]
    /\ rd = [t \in Threads |-> NoReader]
    /\ orphans = <<>>
    /\ leaked = 0
    /\ ret = [t \in Threads |-> NoRet]
    /\ result = [t \in Threads |-> NoResult]
    /\ handshook = [t \in Threads |-> FALSE]
    /\ resumes = [t \in Threads |-> 0]
    /\ pausedBy = [t \in Threads |-> 0]
    /\ sms = [t \in Threads |-> NoSMS]
    /\ messageLines = [t \in Threads |-> <<>>]
    /\ readerMu = 0
    /\ delivered = <<>>
    /\ panics = 0
    /\ responseBuffer = [t \in Threads |-> <<>>]
    /\ messages = [t \in Threads |-> <<>>]
    /\ initStep = [t \in Threads |-> 0]
    /\ sawClosed = [t \in Threads |-> FALSE]
    /\ initLog = <<>>
    /\ stream = <<>>
    /\ timedOut = [t \in Threads |-> FALSE]
    /\ pendingReads = [t \in Threads |-> 0]

\* the steps of a transaction, on a caller's thread or on a listener's
Transaction(t) ==
    \/ PauseListener(t)
    \/ ResumeListener(t)
    \/ ATWrite(t)
    \/ ReaderRead(t)
    \/ ATSelectDone(t)
    \/ ATSelectTimeout(t)

\* the steps of SendSMS between its pause and its resume
Submission(t) ==
    \/ SMSWrite(t)
    \/ SMSPromptRead(t)
    \/ SMSPromptTimeout(t)
    \/ SMSBody(t)
    \/ SMSRespRead(t)
    \/ SMSRespTimeout(t)
    \/ SMSReturn(t)

\* the steps of a listener goroutine
Listener(l) ==
    \/ ListenerPoll(l)
    \/ ListenerRead(l)
    \/ CMTLock(l)
    \/ CMTTimeout(l)
    \/ CMTRead(l)
    \/ \E panic \in BOOLEAN : Callback(l, panic)
    \/ ReadSMSByIndexReturn(l)

Next ==
    \/ \E t \in Callers : \E o \in ATOps \cup ListOps : Invoke(t, o)
    \/ \E t \in Callers : InvokeSendSMS(t)
    \/ \E t \in Callers : Close(t)
    \/ \E t \in Callers : ListenForIncomingSMS(t)
    \/ \E t \in Callers : WrapperReturn(t)
    \/ \E t \in Callers : ListReturn(t)
    \/ \E t \in Threads : Transaction(t)
    \/ \E t \in Callers : Submission(t)
    \/ \E t \in Threads : \E l \in ListenerIds : PauseHandshake(t, l)
    \/ \E s \in Threads : \E r \in Threads : ResumeTransfer(s, r)
    \/ \E k \in 1..Len(orphans) : OrphanRead(k)
    \/ \E l \in ListenerIds : Listener(l)
    \/ ModemSend

Spec == Init /\ [][Next]_vars

(* --------------------- the construction of the handler ----------------- *)

\* the replies the constructor is run against
InitScripts ==
    { <<>>,
      <<cOK>>,
      <<cOK, cOK, cOK>>,
      <<cOK, cOK, cOK, cOK, cOK>>,
      <<cOK, cERROR, cOK, cOK, cOK>>,
      <<cOK, cOK, cOK, cOK, cData, cOK, cOK>> }

\* NewSMSHandler has been called and has not yet opened the port
InitCtor ==
    /\ listening = FALSE
    /\ closed = FALSE
    /\ wire = <<>>
    /\ buffered = <<>>
    /\ script \in InitScripts
    /\ todo = <<>>
    /\ written = <<>>
    /\ pc = [t \in Threads |-> IF t = Ctor THEN "new" ELSE IF t \in Callers THEN "idle" ELSE "l_none"]
    /\ op = [t \in Threads |-> IF t \in Callers THEN "none" ELSE "listen"]
    /\ cmd = [t \in Threads |-> <<>>]
    /\ rd = [t \in Threads |-> NoReader]
    /\ orphans = <<>>
    /\ leaked = 0
    /\ ret = [t \in Threads |-> NoRet]
    /\ result = [t \in Threads |-> NoResult]
    /\ handshook = [t \in Threads |-> FALSE]
    /\ resumes = [t \in Threads |-> 0]
    /\ pausedBy = [t \in Threads |-> 0]
    /\ sms = [t \in Threads |-> NoSMS]
    /\ messageLines = [t \in Threads |-> <<>>]
    /\ readerMu = 0
    /\ delivered = <<>>
    /\ panics = 0
    /\ responseBuffer = [t \in Threads |-> <<>>]
    /\ messages = [t \in Threads |-> <<>>]
    /\ initStep = [t \in Threads |-> 0]
    /\ sawClosed = [t \in Threads |-> FALSE]
    /\ initLog = <<>>
    /\ stream = <<>>
    /\ timedOut = [t \in Threads |-> FALSE]
    /\ pendingReads = [t \in Threads |-> 0]

NextInit ==
    \/ \E opened \in BOOLEAN : NewSMSHandler(opened)
    \/ Transaction(Ctor)
    \/ InitModemStep(Ctor)
    \/ \E k \in 1..Len(orphans) : OrphanRead(k)
    \/ ModemSend
    \/ TransportFails

SpecInit == InitCtor /\ [][NextInit]_vars

(* ------------------------------ properties ----------------------------- *)

\* a listener goroutine is in its poll read or in its +CMT body assembly
ListenerReading == \E l \in ListenerIds : pc[l] \in {"l_read", "cmt_read"}

\* the transactions that are reading from the stream: the reader goroutine of
\* a sendATCommand (also one left behind by a timeout), the read loops of SendSMS
TransactionReaders ==
    {<<"transaction", t>> :
        t \in {x \in Threads : rd[x].pc = "r_read" \/ pc[x] \in {"sms_prompt", "sms_resp"}}}
    \cup {<<"reader", k>> : k \in 1..Len(orphans)}

\* C1: once the listener has been started, at most one of the listener loop
\* and the transactions (their response readers included) reads from the stream.
C1_MutualExclusion ==
    listening =>
        (IF ListenerReading THEN 1 ELSE 0) + Cardinality(TransactionReaders) <= 1

\* the nested sendATCommand of listener l waits to hand its pause request to a
\* listener loop, and there is none to take it, now or later: l holds the only
\* receive on pauseChan and no other listener runs or is going to be started
NestedPauseStuck(l) ==
    /\ op[l] = "readSMSByIndex"
    /\ pc[l] = "pause_send"
    /\ \A m \in ListenerIds \ {l} : pc[m] \in {"l_none", "l_dead"}
    /\ \A i \in 1..Len(todo) : todo[i] # "Listen"

\* C2: the pause handshake of a nested sendATCommand("AT+CMGR=<index>"), issued
\* by the listener on its own goroutine, completes without a second thread: the
\* listener is never left waiting in it with nobody to answer.
C2_NestedPauseCompletes == \A l \in ListenerIds : ~NestedPauseStuck(l)

\* a transaction between its command write and its return
InFlight(t) ==
    \/ pc[t] \in {"at_select", "sms_prompt", "sms_body", "sms_resp"}
    \/ pc[t] \in {"resume", "resume_send"} /\ ret[t].why # "write"

\* C3: at most one transaction is between its command write and its return,
\* also while no listener has been started.
C3_TransactionsSerialized == Cardinality({t \in Threads : InFlight(t)}) <= 1

\* C4: a transaction that completed the pause handshake has sent exactly one
\* resume signal when it returns, and no listener is then still paused by it.
C4_ResumeOnEveryExit ==
    \A t \in Threads :
        (pc[t] = "ret" /\ handshook[t]) =>
            (resumes[t] = 1 /\ \A l \in ListenerIds : pausedBy[l] # t)

\* the lines of a response text
ResponseLines(text) == Split(text, "\n")

\* C5: a sendATCommand whose reader met no terminal line does not return
\* success: it returns the timeout error.
C5_TimeoutInsteadOfSuccess ==
    \A t \in Threads :
        (pc[t] = "ret" /\ op[t] # "SendSMS" /\ ret[t].why # "write"
         /\ ~\E i \in 1..Len(ResponseLines(ret[t].text)) :
                IsTerminal(ResponseLines(ret[t].text)[i]))
        => ret[t].err = "timeout"

\* the last line of a response text is an error reply of the modem
EndsWithError(text) ==
    LET ls == ResponseLines(text) IN
    Contains(ls[Len(ls)], tERROR) \/ Contains(ls[Len(ls)], tCMEERROR)

\* C6: when the reply ends with a line containing ERROR or +CME ERROR,
\* sendATCommand and the operations built on it return a failure.
C6_ProtocolErrorsAreFailures ==
    /\ \A t \in Threads :
        (pc[t] = "ret" /\ op[t] # "SendSMS" /\ EndsWithError(ret[t].text))
        => ret[t].err # "none"
    /\ \A t \in Callers :
        (result[t].op \in ATOps /\ EndsWithError(result[t].text))
        => result[t].err # "none"

\* C7: when the write of the command failed, or the read of the response failed
\* on the closed port, sendATCommand returns an error.
C7_TransportErrorsAreFatal ==
    \A t \in Threads :
        (pc[t] = "ret" /\ op[t] # "SendSMS" /\ ret[t].why \in {"write", "closed"})
        => ret[t].err # "none"

\* C8: a listener goroutine that has been started keeps running, also after a
\* panic in one of its iterations.
C8_ListenerSurvivesPanic == \A l \in ListenerIds : pc[l] # "l_dead"

\* C9: a listener whose read failed on the closed port has terminated; it does
\* not go on to read again.
C9_CloseEndsListener ==
    \A l \in ListenerIds : sawClosed[l] => pc[l] \notin {"l_select", "l_read", "cmt_read"}

\* the buffers initModem's first k commands put on the wire
InitWrites(k) == [i \in 1..k |-> InitCommands[i] \o CRLF]

\* C10: initModem writes AT, AT+CMGF=1, AT+CSCS="GSM", AT+CPMS="SM","SM","SM" in
\* this order, each only after the one before has returned without an error;
\* after an error of one of them nothing more is written and NewSMSHandler fails.
C10_InitOrder ==
    /\ Len(written) <= 7
    /\ written = InitWrites(Len(written))
    /\ \A k \in 1..4 :
        /\ Len(written) > k => (Len(initLog) >= k /\ initLog[k] = "none")
        /\ (Len(initLog) >= k /\ initLog[k] # "none") =>
             /\ Len(written) <= k
             /\ Len(initLog) = k
             /\ result[Ctor] = [op |-> "NewSMSHandler", err |-> "init", text |-> <<>>]
             /\ pc[Ctor] = "idle"

\* one of the first four commands timed out after it was written, and
\* NewSMSHandler has failed
C10_Witness ==
    /\ Len(initLog) \in 2..4
    /\ initLog[Len(initLog)] = "timeout"
    /\ Len(written) = Len(initLog)
    /\ result[Ctor].err = "init"

\* NewSMSHandler has returned
Constructed == pc[Ctor] = "idle" /\ result[Ctor].op = "NewSMSHandler"

\* C11: the notification variants AT+CNMI=1,2,0,1,0, AT+CNMI=2,1,0,2,0 and
\* AT+CNMI=1,1,0,1,0 are written in this order, a variant only after every
\* earlier one returned an error and none after one succeeded; once the first
\* four commands succeeded, initialization fails exactly when all three failed.
C11_NotificationFallback ==
    /\ written = InitWrites(Len(written))
    /\ \A k \in 6..7 :
         Len(written) >= k =>
            \A j \in 5..(k - 1) : Len(initLog) >= j /\ initLog[j] # "none"
    /\ \A k \in 5..7 :
         (Len(initLog) >= k /\ initLog[k] = "none") =>
            /\ Len(written) = k
            /\ Len(initLog) = k
            /\ Constructed /\ result[Ctor].err = "none"
    /\ (Constructed /\ Len(initLog) >= 5) =>
         (result[Ctor].err = "init"
            <=> (Len(initLog) = 7 /\ \A j \in 5..7 : initLog[j] # "none"))

\* the first two variants returned an error, the third succeeded and so did
\* NewSMSHandler
C11_Witness ==
    /\ Len(initLog) = 7
    /\ initLog[5] # "none" /\ initLog[6] # "none" /\ initLog[7] = "none"
    /\ Len(written) = 7
    /\ Constructed /\ result[Ctor].err = "none"

(* --------------------------- notification records ---------------------- *)

RECURSIVE SplitQuoted(_, _, _, _, _)
\* splitRespectingQuotes from position i on, with the field collected so far
\* and the quote state
SplitQuoted(s, sep, i, current, inQuotes) ==
    IF i > Len(s) THEN (IF current # <<>> THEN <<current>> ELSE <<>>)
    ELSE LET q == IF s[i] = "\"" THEN ~inQuotes ELSE inQuotes IN
         IF s[i] = sep /\ ~q
         THEN <<current>> \o SplitQuoted(s, sep, i + 1, <<>>, q)
         ELSE SplitQuoted(s, sep, i + 1, Append(current, s[i]), q)

\* splitRespectingQuotes: the fields of s, split at the separators outside quotes
splitRespectingQuotes(s, sep) == SplitQuoted(s, sep, 1, <<>>, FALSE)

\* the lines the modem has sent, trimmed; a stream ending in a newline gives a
\* last empty element
StreamLines == [i \in 1..Len(Split(stream, "\n")) |-> TrimSpace(Split(stream, "\n")[i])]

\* the fields of a notification or reply header after its "+XXX:" prefix
HeaderFields(line, prefix) ==
    splitRespectingQuotes(TrimSpace(SubSeq(line, Len(prefix) + 1, Len(line))), ",")

\* a quoted field
IsQuoted(f) == Len(f) >= 2 /\ f[1] = "\"" /\ f[Len(f)] = "\""

\* the modem has sent exactly one direct delivery: a +CMT: header with the
\* fields [quoted sender, alpha tag, quoted date], one or more body lines and
\* a blank line
DirectDelivery ==
    LET ls == StreamLines n == Len(ls) IN
    /\ n >= 4
    /\ ls[n] = <<>> /\ ls[n - 1] = <<>>
    /\ HasPrefix(ls[1], tCMT) /\ ~HasPrefix(ls[1], tCMTI)
    /\ Len(HeaderFields(ls[1], tCMT)) = 3
    /\ IsQuoted(HeaderFields(ls[1], tCMT)[1]) /\ IsQuoted(HeaderFields(ls[1], tCMT)[3])
    /\ \A i \in 2..(n - 2) : ls[i] # <<>> /\ ~EndsBody(ls[i])

\* the record a direct delivery stands for
DirectRecord ==
    LET ls == StreamLines
        f == HeaderFields(ls[1], tCMT)
    IN [Index |-> 0, Status |-> <<>>,
        Sender |-> SubSeq(f[1], 2, Len(f[1]) - 1),
        Date |-> SubSeq(f[3], 2, Len(f[3]) - 1),
        Message |-> Join(SubSeq(ls, 2, Len(ls) - 2), <<"\n">>)]

\* listener l is the only reader the stream has had: no command was written,
\* no other listener was started, the port is open and l's body assembly did
\* not run into its 2 second timeout
ListensAlone(l) ==
    /\ pc[l] # "l_none"
    /\ \A m \in ListenerIds \ {l} : pc[m] = "l_none"
    /\ written = <<>>
    /\ ~closed
    /\ ~timedOut[l]

\* C12: a +CMT: header [quoted sender, alpha tag, quoted date] followed by body
\* lines and a blank line makes the listener call the callback exactly once,
\* with the unquoted sender, the whole quoted date and the body lines joined by
\* single newlines.
C12_DirectDeliveryRecord ==
    \A l \in ListenerIds :
        (DirectDelivery /\ ListensAlone(l)) =>
            /\ Len(delivered) <= 1
            /\ delivered # <<>> => delivered[1] = DirectRecord
            /\ (script = <<>> /\ wire = <<>> /\ buffered = <<>> /\ pc[l] = "l_select")
                 => Len(delivered) = 1

\* a record with a sender and a message
HasSenderAndMessage(r) == r.Sender # <<>> /\ r.Message # <<>>

\* C13: every SMS record handed to a caller, passed to the listener callback or
\* returned by ReadSMS/ReadNewSMS, has a non-empty sender and a non-empty message.
C13_RecordInvariant ==
    /\ \A i \in 1..Len(delivered) : HasSenderAndMessage(delivered[i])
    /\ \A t \in Callers : \A i \in 1..Len(messages[t]) : HasSenderAndMessage(messages[t][i])

(* -------------------------------- SendSMS ------------------------------ *)

\* the two buffers SendSMS writes
SMSCommand == tCMGS \o PhoneNumber \o <<"\"", "\r">>
SMSPayload == MessageText \o <<CtrlZ>>

\* how many of the written buffers are equal to b
Written(b) == Cardinality({i \in 1..Len(written) : written[i] = b})

\* the SendSMS of thread t has given up waiting for the prompt
PromptFailed(t) ==
    \/ pc[t] \in {"resume", "resume_send", "ret"} /\ op[t] = "SendSMS" /\ ret[t].err = "prompt"
    \/ result[t].op = "SendSMS" /\ result[t].err = "prompt"

\* C14: SendSMS writes AT+CMGS="<number>" ended by a carriage return only; it
\* writes the message followed by 0x1A only after it has read a `>' byte from
\* the stream; when the prompt deadline passes it returns an error and the
\* message and 0x1A are not written.
C14_SendSMSWriteOrder ==
    /\ [](\A i \in 1..Len(written) :
            HasPrefix(written[i], tCMGS) =>
               (written[i] = SMSCommand /\ ~Contains(written[i], <<"\n">>)))
    /\ [](Written(SMSPayload) <= Written(SMSCommand))
    /\ [](Written(SMSPayload) > 0 => Contains(stream, <<">">>))
    /\ [](\A t \in Callers :
            PromptFailed(t) => Written(SMSPayload) < Written(SMSCommand))
    /\ [][\A t \in Callers :
            (pc[t] # "sms_body" /\ pc'[t] = "sms_body") =>
               (pc[t] = "sms_prompt" /\ wire # <<>> /\ Head(wire) = ">"
                /\ wire' = Tail(wire))]_vars
    /\ [][Written(SMSPayload)' > Written(SMSPayload) =>
            \E t \in Callers : pc[t] = "sms_body" /\ pc'[t] = "sms_resp"]_vars

\* a SendSMS has read the prompt, written the message and 0x1A and waits for
\* the reply
C14_Witness ==
    \E t \in Callers :
        /\ pc[t] = "sms_resp"
        /\ Written(SMSCommand) = 1 /\ Written(SMSPayload) = 1
        /\ written[Len(written)] = SMSPayload

\* what the SendSMS of thread t has accumulated once the step's read is added
Accumulated(t) == responseBuffer[t] \o SubSeq(wire, 1, Len(wire) - Len(wire'))

\* C15: after the body was written SendSMS succeeds as soon as the accumulated
\* reply contains +CMGS:, fails with the raw reply as soon as it contains ERROR
\* (or +CMS ERROR) and no +CMGS:, and fails with a timeout when the deadline
\* passes with neither; a reply with only OK does not end the wait.
C15_SendSMSOutcome ==
    /\ [](\A t \in Callers :
            pc[t] = "sms_resp" =>
               /\ ~Contains(responseBuffer[t], tCMGSq)
               /\ ~Contains(responseBuffer[t], tERROR)
               /\ ~Contains(responseBuffer[t], tCMSERROR))
    /\ [][\A t \in Callers :
            (pc[t] = "sms_resp" /\ pc'[t] # "sms_resp") =>
               IF Contains(Accumulated(t), tCMGSq)
               THEN ret'[t].err = "none"
               ELSE IF Contains(Accumulated(t), tERROR) \/ Contains(Accumulated(t), tCMSERROR)
               THEN ret'[t].err = "failed" /\ ret'[t].text = Accumulated(t)
               ELSE ret'[t].err = "timeout"]_vars
    /\ [][\A t \in Callers :
            (pc[t] = "sms_resp" /\ pc'[t] = "sms_resp"
             /\ responseBuffer'[t] # responseBuffer[t]) =>
               responseBuffer'[t] = Accumulated(t)]_vars

\* a SendSMS has read a reply holding OK, and neither +CMGS: nor ERROR, and
\* goes on waiting
C15_Witness ==
    \E t \in Callers : pc[t] = "sms_resp" /\ Contains(responseBuffer[t], tOK)

(* ------------------------------ header parsing ------------------------- *)

\* the header fields the parsers are run on
qStatus == <<"\"","R","E","C"," ","R","E","A","D","\"">>
Senders == {<<"\"", "+", "1", "\"">>, <<"\"", "\"">>}
Alphas == {<<"\"", "\"">>, <<"\"", "a", ",", "b", "\"">>}
Dates == {<<"\"", "d", "\"">>, <<"\"", "d", ",", "t", "\"">>}

\* status, sender, date and status, sender, alpha tag, date
FieldLists ==
    {<<qStatus, s, d>> : s \in Senders, d \in Dates}
    \cup {<<qStatus, s, a, d>> : s \in Senders, a \in Alphas, d \in Dates}

\* +CMGR: headers as the modem sends them, and two malformed ones
ReadHeaders ==
    {tCMGRq \o <<" ">> \o Join(f, <<",">>) : f \in FieldLists}
    \cup {tCMGRq \o <<" ">> \o qStatus,
          <<"+","C","M","G","R",":",",","\"","+","1","\"",",","\"","d","\"">>}

\* +CMGL: headers: an index before the fields; one with too few fields
ListHeaders ==
    {tCMGLq \o <<" ", "1", ",">> \o Join(f, <<",">>) : f \in FieldLists}
    \cup {tCMGLq \o <<" ", "3", ",">> \o qStatus}

\* +CMT: headers: sender, alpha tag, date
DirectHeaders ==
    {tCMT \o <<" ">> \o Join(<<s, a, d>>, <<",">>) : s \in Senders, a \in Alphas, d \in Dates}

\* the text sendATCommand returns for a reply of these lines
ResponseOf(lines) == Join(lines \o <<tOK>>, <<"\n">>)

\* replies to AT+CMGR: a header and a body line
ReadResponses == {ResponseOf(<<h, <<"a", "b", "c">>>>) : h \in ReadHeaders}

\* replies to AT+CMGL: one to three entries, each a header and a body line
ListResponses ==
    {ResponseOf(<<h, <<"a", "b", "c">>>>) : h \in ListHeaders}
    \cup {ResponseOf(<<g, <<"x">>, h, <<"a", "b", "c">>>>) :
            g \in {tCMGLq \o <<" ", "3", ",">> \o qStatus,
                   tCMGLq \o <<" ", "2", ",">> \o Join(<<qStatus, <<"\"", "+", "2", "\"">>, <<"\"", "\"">>, <<"\"", "e", "\"">>>>, <<",">>)},
            h \in ListHeaders}
    \cup {ResponseOf(<<tCMGLq \o <<" ", "3", ",">> \o qStatus, <<"x">>,
                       tCMGLq \o <<" ", "2", ",">> \o Join(<<qStatus, <<"\"", "+", "2", "\"">>, <<"\"", "e", "\"">>>>, <<",">>),
                       <<"y">>, h, <<"a", "b", "c">>>>) :
            h \in ListHeaders}

\* the bytes of the reply whose text is r
AsStream(r) == Join([i \in 1..Len(Split(r, "\n")) |-> Split(r, "\n")[i] \o CRLF], <<>>)

\* a handler on which one parser is about to run: ReadSMS or ReadNewSMS whose
\* sendATCommand has returned a reply, a listener whose nested AT+CMGR=1 has
\* returned one, or a listener about to read a +CMT: header
InitParse ==
    /\ closed = FALSE
    /\ wire = <<>>
    /\ script = <<>>
    /\ todo = <<>>
    /\ rd = [t \in Threads |-> NoReader]
    /\ orphans = <<>>
    /\ leaked = 0
    /\ result = [t \in Threads |-> NoResult]
    /\ pausedBy = [t \in Threads |-> 0]
    /\ messageLines = [t \in Threads |-> <<>>]
    /\ readerMu = 0
    /\ delivered = <<>>
    /\ panics = 0
    /\ responseBuffer = [t \in Threads |-> <<>>]
    /\ messages = [t \in Threads |-> <<>>]
    /\ initStep = [t \in Threads |-> 0]
    /\ sawClosed = [t \in Threads |-> FALSE]
    /\ timedOut = [t \in Threads |-> FALSE]
    /\ pendingReads = [t \in Threads |-> 0]
    /\ initLog = <<>>
    /\ \/ \E t \in Callers : \E o \in ListOps : \E r \in ListResponses :
            /\ listening = FALSE
            /\ buffered = <<>>
            /\ stream = AsStream(r)
            /\ written = <<CommandOf(o) \o CRLF>>
            /\ pc = [x \in Threads |-> IF x = t THEN "ret"
                                       ELSE IF x \in Callers THEN "idle" ELSE "l_none"]
            /\ op = [x \in Threads |-> IF x = t THEN o
                                       ELSE IF x \in Callers THEN "none" ELSE "listen"]
            /\ cmd = [x \in Threads |-> IF x = t THEN CommandOf(o) ELSE <<>>]
            /\ ret = [x \in Threads |-> IF x = t
                                        THEN [err |-> "none", text |-> r, why |-> "terminal"]
                                        ELSE NoRet]
            /\ sms = [x \in Threads |-> NoSMS]
            /\ handshook = [x \in Threads |-> FALSE]
            /\ resumes = [x \in Threads |-> 0]
       \/ \E l \in ListenerIds : \E r \in ReadResponses :
            /\ listening = TRUE
            /\ buffered = <<>>
            /\ stream = cCMTI \o AsStream(r)
            /\ written = <<tCMGR \o Itoa(1) \o CRLF>>
            /\ pc = [x \in Threads |-> IF x = l THEN "ret"
                                       ELSE IF x \in Callers THEN "idle" ELSE "l_select"]
            /\ op = [x \in Threads |-> IF x = l THEN "readSMSByIndex"
                                       ELSE IF x \in Callers THEN "none" ELSE "listen"]
            /\ cmd = [x \in Threads |-> IF x = l THEN tCMGR \o Itoa(1) ELSE <<>>]
            /\ ret = [x \in Threads |-> IF x = l
                                        THEN [err |-> "none", text |-> r, why |-> "terminal"]
                                        ELSE NoRet]
            /\ sms = [x \in Threads |-> IF x = l THEN [NoSMS EXCEPT !.Index = 1] ELSE NoSMS]
            /\ handshook = [x \in Threads |-> x = l]
            /\ resumes = [x \in Threads |-> IF x = l THEN 1 ELSE 0]
       \/ \E l \in ListenerIds : \E h \in DirectHeaders :
            /\ listening = TRUE
            /\ buffered = Line(h)
            /\ stream = Line(h)
            /\ written = <<>>
            /\ pc = [x \in Threads |-> IF x = l THEN "l_read"
                                       ELSE IF x \in Callers THEN "idle" ELSE "l_none"]
            /\ op = [x \in Threads |-> IF x \in Callers THEN "none" ELSE "listen"]
            /\ cmd = [x \in Threads |-> <<>>]
            /\ ret = [x \in Threads |-> NoRet]
            /\ sms = [x \in Threads |-> NoSMS]
            /\ handshook = [x \in Threads |-> FALSE]
            /\ resumes = [x \in Threads |-> 0]

\* the parsers, and the delivery of what read-by-index parsed
NextParse ==
    \/ \E t \in Callers : ListReturn(t)
    \/ \E l \in ListenerIds : ReadSMSByIndexReturn(l)
    \/ \E l \in ListenerIds : ListenerRead(l)
    \/ \E l \in ListenerIds : \E panic \in BOOLEAN : Callback(l, panic)

SpecParse == InitParse /\ [][NextParse]_vars

\* a field without its enclosing quotes
Unquote(f) == IF IsQuoted(f) THEN SubSeq(f, 2, Len(f) - 1) ELSE f

\* a header of at least n fields, none missing, each quoted as a whole or
\* holding no quote at all
WellFormed(f, n) ==
    /\ Len(f) >= n
    /\ \A i \in 1..Len(f) :
         /\ f[i] # <<>>
         /\ IsQuoted(f[i]) \/ ~Contains(f[i], <<"\"">>)

\* the trimmed lines of a response that start with the prefix, in order
HeaderLines(response, prefix) ==
    SelectSeq([i \in 1..Len(Split(response, "\n")) |-> TrimSpace(Split(response, "\n")[i])],
              LAMBDA line : HasPrefix(line, prefix))

\* the date of a header with these fields: the 4th field of four or more,
\* the 3rd of three
DateOf(f) == IF Len(f) >= 4 THEN Unquote(f[4]) ELSE Unquote(f[3])

\* read-by-index is about to parse a reply with a single, well-formed header
ReadsWellFormed(l) ==
    /\ pc[l] = "ret" /\ op[l] = "readSMSByIndex" /\ ret[l].err = "none"
    /\ Len(HeaderLines(ret[l].text, tCMGRq)) = 1
    /\ WellFormed(HeaderFields(HeaderLines(ret[l].text, tCMGRq)[1], tCMGRq), 3)

\* the list parser is about to parse a reply whose headers are all well-formed
ListsWellFormed(t) ==
    /\ pc[t] = "ret" /\ op[t] \in ListOps /\ ret[t].err = "none"
    /\ \A i \in 1..Len(HeaderLines(ret[t].text, tCMGLq)) :
         WellFormed(HeaderFields(HeaderLines(ret[t].text, tCMGLq)[i], tCMGLq), 4)

\* C16: for a well-formed +CMGR: or +CMGL: header, with the fields split at the
\* commas outside quotes, the date parsed by readSMSByIndex and by parseSMSList
\* is the 4th field without its quotes when there are four or more fields, the
\* 3rd when there are three.
C16_DatePosition ==
    /\ [][\A l \in ListenerIds :
            (ReadsWellFormed(l) /\ pc'[l] # "ret") =>
               /\ pc'[l] = "callback"
               /\ sms'[l].Date =
                    DateOf(HeaderFields(HeaderLines(ret[l].text, tCMGRq)[1], tCMGRq))]_vars
    /\ [][\A t \in Callers :
            (ListsWellFormed(t) /\ pc'[t] # "ret") =>
               /\ Len(messages'[t]) = Len(HeaderLines(ret[t].text, tCMGLq))
               /\ \A i \in 1..Len(messages'[t]) :
                    messages'[t][i].Date =
                      DateOf(HeaderFields(HeaderLines(ret[t].text, tCMGLq)[i], tCMGLq))]_vars

\* the header fields of a record all are whole fields of these, unquoted
TakenWhole(r, f) ==
    \A x \in {r.Status, r.Sender, r.Date} :
       x = <<>> \/ \E i \in 1..Len(f) : x = Unquote(f[i])

\* C17: the header parsers (list, read-by-index and +CMT) split a header only
\* at the commas outside double quotes: every status, sender and date they
\* produce is a whole field of the header, never a piece of a quoted field.
C17_QuoteAwareSplitting ==
    /\ [][\A l \in ListenerIds :
            (ReadsWellFormed(l) /\ pc'[l] = "callback") =>
               TakenWhole(sms'[l], HeaderFields(HeaderLines(ret[l].text, tCMGRq)[1], tCMGRq))]_vars
    /\ [][\A t \in Callers :
            (ListsWellFormed(t) /\ pc'[t] # "ret"
             /\ Len(messages'[t]) = Len(HeaderLines(ret[t].text, tCMGLq))) =>
               \A i \in 1..Len(messages'[t]) :
                  TakenWhole(messages'[t][i],
                             HeaderFields(HeaderLines(ret[t].text, tCMGLq)[i], tCMGLq))]_vars
    /\ [][\A l \in ListenerIds :
            (/\ pc[l] = "l_read" /\ HasNL(buffered)
             /\ HasPrefix(buffered, tCMT) /\ ~HasPrefix(buffered, tCMTI)
             /\ pc'[l] = "cmt_lock") =>
               TakenWhole(sms'[l],
                          HeaderFields(TrimSpace(SubSeq(buffered, 1, FirstNL(buffered))), tCMT))]_vars

\* a +CMGL: header that parseSMSList accepts: four comma-separated parts or more
ListEntry(line) == HasPrefix(line, tCMGLq) /\ Len(Split(line, ",")) >= 4

\* the list parser is about to parse a reply that holds a header with too few
\* parts, and in which every accepted header is followed by its body line
ListsBadEntry(t) ==
    LET lines == Split(ret[t].text, "\n")
    IN /\ pc[t] = "ret" /\ op[t] \in ListOps /\ ret[t].err = "none"
       /\ \E i \in 1..Len(lines) :
            HasPrefix(TrimSpace(lines[i]), tCMGLq) /\ ~ListEntry(TrimSpace(lines[i]))
       /\ \A i \in 1..Len(lines) :
            ListEntry(TrimSpace(lines[i])) =>
               i + 1 <= Len(lines) /\ ~HasPrefix(TrimSpace(lines[i + 1]), tCMGLq)

Composed(seen, c) ==
    LET kept == SelectSeq(seen, LAMBDA x : x # <<>> /\ x # c)
        ends == {k \in 1..Len(kept) : IsTerminal(kept[k])}
        last == IF ends = {} THEN Len(kept)
                ELSE CHOOSE k \in ends : \A j \in ends : k <= j
    IN Join(SubSeq(kept, 1, last), <<"\n">>)

\* C19: the text returned by a sendATCommand that ends on a terminal line is,
\* in stream order, exactly the trimmed non-empty lines read after the command
\* write that are not equal to the command text, up to and including the first
\* line holding OK, ERROR or +CME ERROR; the transaction reads no line after
\* that terminal line.
C19_ResponseComposition ==
    /\ [](\A t \in Threads :
            \A i \in 1..(Len(rd[t].seen) - 1) :
               rd[t].seen[i] = cmd[t] \/ ~IsTerminal(rd[t].seen[i]))
    /\ [][\A t \in Threads :
            (pc[t] = "at_select" /\ pc'[t] = "resume" /\ ret'[t].why = "terminal") =>
               ret'[t].text = Composed(rd[t].seen, cmd[t])]_vars

\* AT+CSQ returned abc and OK after the modem had sent the echo, a blank line,
\* abc, OK and one more line
C19_Witness ==
    \E t \in Callers :
       /\ pc[t] = "resume" /\ op[t] = "GetSignalStrength"
       /\ ret[t].why = "terminal"
       /\ ret[t].text = <<"a", "b", "c", "\n", "O", "K">>
       /\ stream = cEcho \o cBlank \o cData \o cOK \o cData

\* the last n lines of a history are blank
EndsInBlanks(seen, n) ==
    /\ Len(seen) >= n
    /\ \A i \in (Len(seen) - n + 1)..Len(seen) : seen[i] = <<>>

\* C20: sendATCommand stops because of blank lines only after more than 3
\* consecutive blank lines: a reader that stopped for that reason has just read
\* four blank lines in a row, with no content line and no command echo between
\* them, and a reader that has read four blank lines in a row has stopped.
C20_BlankLineGuard ==
    /\ [](\A t \in Threads : rd[t].why = "blank" => EndsInBlanks(rd[t].seen, 4))
    /\ [](\A t \in Threads : EndsInBlanks(rd[t].seen, 4) => rd[t].pc = "r_done")

(* ------------------------- listener coordination ----------------------- *)

\* C21: a listener read that ends with a timeout or no data is not an error
\* (the listener goes back to its select), and the listener checks for a
\* waiting pause request between any two consecutive reads: with a pause
\* request waiting, a listener makes at most one more read before its select.
C21_CooperativeYield ==
    /\ [][\A l \in ListenerIds :
            (pc[l] = "l_read" /\ pc'[l] # "l_read" /\ ~ReadString.ok) =>
               pc'[l] = "l_select"]_vars
    /\ [](\A l \in ListenerIds : pendingReads[l] <= 1)

\* C22: a +CMT: or +CMTI: line that ends the body of the notification being
\* assembled is not taken as body and is not lost: when the modem has sent two
\* direct deliveries back to back (header, body line, header, body line, blank
\* line) to a listener that reads alone, no +CMT: line is ever part of a body
\* and, once everything has been read, the callback has been called for both,
\* in order.
C22_TerminatingLinePushedBack ==
    \A l \in ListenerIds :
       LET ls == StreamLines IN
       (/\ ListensAlone(l)
        /\ Len(ls) = 6 /\ ls[5] = <<>> /\ ls[6] = <<>>
        /\ \A i \in {1, 3} : HasPrefix(ls[i], tCMT) /\ ParseCMTHeader(ls[i]).ok
        /\ \A i \in {2, 4} : ls[i] # <<>> /\ ~EndsBody(ls[i]))
       => /\ \A i \in 1..Len(messageLines[l]) : ~HasPrefix(messageLines[l][i], tCMT)
          /\ (script = <<>> /\ wire = <<>> /\ buffered = <<>> /\ pc[l] = "l_select")
               => /\ Len(delivered) = 2
                  /\ delivered[1].Message = ls[2]
                  /\ delivered[2].Message = ls[4]

\* C23: for every +CMT: header the listener handles the callback is invoked at
\* most once: a malformed header is dropped without a call; when the assembly
\* of the body ends (by a blank line, a terminating line or the 2 second
\* deadline) the callback is about to be called with the joined body if a body
\* line had been collected, and is not called if none had; and each call
\* pending is made once, delivering the record.
C23_CallbackCountPerCMT ==
    /\ [][\A l \in ListenerIds :
            (/\ pc[l] = "l_read" /\ pc'[l] # "l_read"
             /\ HasPrefix(TrimSpace(ReadString.line), tCMT)
             /\ ~ParseCMTHeader(TrimSpace(ReadString.line)).ok)
            => pc'[l] = "l_select" /\ delivered' = delivered]_vars
    /\ [][\A l \in ListenerIds :
            (pc[l] = "cmt_read" /\ pc'[l] # "cmt_read")
            => /\ delivered' = delivered
               /\ IF messageLines[l] # <<>>
                  THEN /\ pc'[l] = "callback"
                       /\ sms'[l].Message = Join(messageLines[l], <<"\n">>)
                  ELSE pc'[l] = "l_select"]_vars
    /\ [][\A l \in ListenerIds :
            (pc'[l] = "callback" /\ pc[l] # "callback") => pc[l] \in {"cmt_read", "ret"}]_vars
    /\ [][\A l \in ListenerIds :
            (pc[l] = "callback" /\ pc'[l] # "callback")
            => delivered' = Append(delivered, sms[l])]_vars
    /\ [][delivered' # delivered
            => \E l \in ListenerIds :
                  /\ pc[l] = "callback" /\ pc'[l] # "callback"
                  /\ delivered' = Append(delivered, sms[l])]_vars

\* a listener that read a +CMT: header and the body line abc ran into the 2
\* second deadline and has called the callback once
C23_Witness ==
    \E l \in ListenerIds :
       /\ timedOut[l] /\ pc[l] = "l_select"
       /\ HasPrefix(stream, cCMT \o cData)
       /\ Len(delivered) = 1
       /\ delivered[1].Message = <<"a", "b", "c">>

\* C24: once ListenForIncomingSMS has set the listening flag, the flag is true
\* in every later state: no operation, Close included, sets it back to false.
C24_ListeningNeverCleared ==
    [][listening => listening']_vars

\* a handler whose listener was started and which was then closed, with no
\* other operation: the flag is still set
C24_Witness ==
    /\ listening /\ closed
    /\ todo = <<>> /\ script = <<>>
    /\ stream = cCMT \o cData \o cBlank
    /\ \A t \in Callers : pc[t] = "idle" /\ result[t].op = "none"

\* C25: no reader outlives its transaction: once sendATCommand has returned,
\* also by its 10 second timeout, the reader goroutine it started reads no more
\* from the stream and has ended; none is left reading and none is left blocked
\* on its `done' channel.
C25_NoReaderOutlivesTransaction ==
    orphans = <<>> /\ leaked = 0

\* C26: when ListenForIncomingSMS is called while a transaction that began
\* before it is in flight, no resume signal is sent, or waited to be sent, by
\* that transaction: only a transaction that completed the pause handshake
\* itself is ever in the send on resumeChan, so the return of the others does
\* not depend on anybody receiving from it.
C26_ListenDuringTransaction ==
    \A t \in Threads :
       (pc[t] = "resume_send" \/ resumes[t] > 0) => handshook[t]

\* C27: however many times ListenForIncomingSMS is called, at most one listener
\* goroutine reads from the stream, and one pause handshake suspends all
\* listener reading: while a transaction that completed the handshake is in
\* flight, no listener is in a read.
C27_SingleListener ==
    /\ Cardinality({l \in ListenerIds : pc[l] \in {"l_read", "cmt_read"}}) <= 1
    /\ \A t \in Threads : (handshook[t] /\ InFlight(t)) => ~ListenerReading

\* C28: parseSMSList returns one record for each +CMGL: header line of the
\* response that it accepts, and a header line is never taken as the message
\* of the entry before it, also when that entry's body was a blank line that
\* sendATCommand dropped.
C28_NoEntryLostToBodyLookup ==
    [][\A t \in Callers :
         (pc[t] = "ret" /\ op[t] \in ListOps /\ ret[t].err = "none" /\ pc'[t] # "ret") =>
            LET lines == Split(ret[t].text, "\n") IN
            /\ Len(messages'[t]) =
                 Cardinality({i \in 1..Len(lines) : ListEntry(TrimSpace(lines[i]))})
            /\ \A k \in 1..Len(messages'[t]) :
                 ~HasPrefix(messages'[t][k].Message, tCMGLq)]_vars

====
